---- MODULE Spec2Model ----
(***************************************************************************)
(* Model of src/easyFig.py: the two chart helpers plot_line and plot_bar.  *)
(*                                                                         *)
(* One call of a renderer is one action.  The action records, in order,    *)
(* every call the renderer makes on the canvas (draw calls, legend calls,  *)
(* tick labels) and on the operating system (makedirs, savefig, print,     *)
(* show), and how the call ended (returned, or raised and where).  The     *)
(* only state that outlives a call is the set of directories on disk,      *)
(* which os.path.exists reads.                                             *)
(*                                                                         *)
(* Python values are tagged records:                                       *)
(*   Num(n)   a number                                                     *)
(*   Lst(s)   a flat list or tuple of numbers (isinstance treats list and  *)
(*            tuple alike at every test of the source)                     *)
(*   Dct(d)   a dict, as the sequence of its items in insertion order      *)
(*   Top(is)  the data argument when it is a list or tuple: its items      *)
(* Floats are exact rationals [n, d]; rounding is not modelled.            *)
(* Arguments no dispatch or finishing decision reads (xlabel, ylabel,      *)
(* title, figsize, style, grid) are left at their defaults.                *)
(***************************************************************************)
EXTENDS Integers, Sequences, FiniteSets, TLC

VARIABLES pc, args, draws, legends, ticks, series_names, bottom, events,
          err, dirs

vars == <<pc, args, draws, legends, ticks, series_names, bottom, events,
          err, dirs>>

\* ------------------------------------------------------------------ bounds

\* Longest series (and longest flat list) passed as data.
MaxLen == 3

\* Largest number of series in a mapping or a sequence of sequences.
MaxSeries == 3

\* ------------------------------------------------------------- Python values

Num(n) == [k |-> "num", n |-> n, s |-> <<>>, d |-> <<>>]

Lst(s) == [k |-> "list", n |-> 0, s |-> s, d |-> <<>>]

Dct(d) == [k |-> "dict", n |-> 0, s |-> <<>>, d |-> d]

\* An argument that is not passed (ax.plot(y) has no x).
Absent == [k |-> "absent", n |-> 0, s |-> <<>>, d |-> <<>>]

\* The data argument when it is a list or tuple, by its items.
Top(items) == [k |-> "seq", d |-> <<>>, items |-> items]

\* The data argument when it is a dict.
TopDict(d) == [k |-> "dict", d |-> d, items |-> <<>>]

NoneArg == [k |-> "None", s |-> <<>>]

ListArg(s) == [k |-> "list", s |-> s]

\* list(range(n))
Range(n) == [j \in 1..n |-> j - 1]

\* len(v) of a value; numpy treats a number as one element.
Size(v) == IF v.k = "num" THEN 1 ELSE Len(v.s)

\* A top-level list of numbers, as the array the draw primitive receives.
AsArray(data) == Lst([j \in 1..Len(data.items) |-> data.items[j].n])

\* ------------------------------------------------------------ the primitives

\* A draw call made without label=.
NoLabel == "<no label>"

\* A draw call made without **kwargs.
NoKw == <<>>

\* f'Series {i+1}' for the 0-indexed i = idx - 1.
SeriesLabel(idx) == "Series " \o ToString(idx)

\* ax.plot(x, y): matplotlib raises when x and y differ in length; with x
\* absent it draws y against its own indices.
PlotRaises(c) == c.x.k # "absent" /\ Size(c.x) # Size(c.y)

\* The elements of a value as numpy sees them.
Elems(v) == IF v.k = "num" THEN <<v.n>> ELSE v.s

\* The x-values a line draw call ends up with.
DrawnX(c) == IF c.x.k = "absent" THEN Range(Size(c.y)) ELSE Elems(c.x)

\* The first step of a loop whose primitive raises (Len + 1: none does);
\* bad[i] tells whether step i does.
FirstRaise(bad) ==
    IF \E i \in 1..Len(bad) : bad[i]
    THEN CHOOSE i \in 1..Len(bad) : bad[i] /\ \A j \in 1..(i - 1) : ~bad[j]
    ELSE Len(bad) + 1

\* What a loop of draw calls leaves: the calls made before the first one
\* that raised, and whether one raised.
RunLoop(steps, bad) ==
    LET f == FirstRaise(bad)
    IN  [draws |-> SubSeq(steps, 1, f - 1),
         err |-> IF f <= Len(steps) THEN "primitive" ELSE "none"]

\* PlotRaises over the steps of a loop.
PlotBad(steps) == [i \in 1..Len(steps) |-> PlotRaises(steps[i])]

NoNames == [k |-> "None", v |-> <<>>]

Names(v) == [k |-> "list", v |-> v]

\* list(d.keys())
Keys(d) == [i \in 1..Len(d) |-> d[i].name]

\* ---------------------------------------------------------------- plot_line

\* The chain with the sequence-of-sequences test ahead of the two pair
\* tests: the order the pair tests exist to prevent.
LineBranchSeqFirst(data) ==
    IF data.k = "dict" THEN "mapping"
    ELSE IF \A i \in 1..Len(data.items) : data.items[i].k = "list"
         THEN "seqseq"
    ELSE IF Len(data.items) = 2 /\ data.items[2].k = "dict" THEN "xmapping"
    ELSE IF Len(data.items) = 2 /\ data.items[2].k # "dict" THEN "xy"
    ELSE "single"

\* The if/elif chain of plot_line: the first test that holds.
LineBranch(data) ==
    IF data.k = "dict" THEN "mapping"
    ELSE IF Len(data.items) = 2 /\ data.items[2].k = "dict" THEN "xmapping"
    ELSE IF Len(data.items) = 2 /\ data.items[2].k # "dict" THEN "xy"
    ELSE IF \A i \in 1..Len(data.items) : data.items[i].k = "list"
         THEN "seqseq"
    ELSE "single"

LineCall(x, y, label, kw, via) ==
    [x |-> x, y |-> y, label |-> label, kw |-> kw, via |-> via]

\* The dict loop with label=name left out of ax.plot.
LineMappingUnlabelled(d, x_data, kwargs) ==
    LET x == IF x_data.k # "None" THEN Lst(x_data.s) ELSE Absent
        steps == [i \in 1..Len(d) |->
                     LineCall(x, Lst(d[i].ys), NoLabel, kwargs, "ax")]
        r == RunLoop(steps, PlotBad(steps))
    IN  [draws |-> r.draws, legends |-> <<>>, series_names |-> Names(Keys(d)),
         err |-> r.err]

\* Lines 70-78: one ax.plot per item of the dict, labelled with its key.
LineMapping(d, x_data, kwargs) ==
    LET x == IF x_data.k # "None" THEN Lst(x_data.s) ELSE Absent
        steps == [i \in 1..Len(d) |->
                     LineCall(x, Lst(d[i].ys), d[i].name, kwargs, "ax")]
        r == RunLoop(steps, PlotBad(steps))
    IN  [draws |-> r.draws, legends |-> <<>>, series_names |-> Names(Keys(d)),
         err |-> r.err]

\* Lines 80-86: (x_vals, y_dict).
LineXMapping(items, kwargs) ==
    LET d == items[2].d
        steps == [i \in 1..Len(d) |->
                     LineCall(items[1], Lst(d[i].ys), d[i].name, kwargs, "ax")]
        r == RunLoop(steps, PlotBad(steps))
    IN  [draws |-> r.draws, legends |-> <<>>, series_names |-> Names(Keys(d)),
         err |-> r.err]

\* Lines 88-92: (x_vals, y_vals), whatever the two items are.
LineXY(items, kwargs) ==
    LET steps == <<LineCall(items[1], items[2], NoLabel, kwargs, "ax")>>
        r == RunLoop(steps, PlotBad(steps))
    IN  [draws |-> r.draws, legends |-> <<>>, series_names |-> NoNames,
         err |-> r.err]

\* Lines 94-102: plt.plot per item, without **kwargs, then plt.legend()
\* whatever the legend argument is.  data[0] of an empty list raises.
LineSeqSeq(items, x_data) ==
    IF x_data.k = "None" /\ Len(items) = 0
    THEN [draws |-> <<>>, legends |-> <<>>, series_names |-> NoNames,
          err |-> "IndexError"]
    ELSE
    LET x == IF x_data.k = "None" THEN Lst(Range(Len(items[1].s)))
             ELSE Lst(x_data.s)
        steps == [i \in 1..Len(items) |->
                     LineCall(x, items[i], SeriesLabel(i), NoKw, "plt")]
        r == RunLoop(steps, PlotBad(steps))
    IN  [draws |-> r.draws,
         legends |-> IF r.err = "none"
                     THEN <<[via |-> "plt", labels |-> NoneArg]>> ELSE <<>>,
         series_names |-> NoNames,
         err |-> r.err]

\* Lines 104-110: the fallback, data itself as the y-values.
LineSingle(data, x_data, kwargs) ==
    LET x == IF x_data.k # "None" THEN Lst(x_data.s) ELSE Absent
        steps == <<LineCall(x, AsArray(data), NoLabel, kwargs, "ax")>>
        r == RunLoop(steps, PlotBad(steps))
    IN  [draws |-> r.draws, legends |-> <<>>, series_names |-> NoNames,
         err |-> r.err]

\* Lines 69-110 of plot_line.
LineDispatch(data, x_data, kwargs) ==
    LET b == LineBranch(data)
    IN  CASE b = "mapping"  -> LineMapping(data.d, x_data, kwargs)
          [] b = "xmapping" -> LineXMapping(data.items, kwargs)
          [] b = "xy"       -> LineXY(data.items, kwargs)
          [] b = "seqseq"   -> LineSeqSeq(data.items, x_data)
          [] OTHER          -> LineSingle(data, x_data, kwargs)

\* ----------------------------------------------------------------- plot_bar

\* Exact fractions n/d with d > 0, in lowest terms.
RECURSIVE GCD(_, _)
GCD(a, b) == IF b = 0 THEN a ELSE GCD(b, a % b)

Abs(n) == IF n < 0 THEN -n ELSE n

Rat(n, d) == LET g == GCD(Abs(n), d) IN [n |-> n \div g, d |-> d \div g]

RInt(i) == [n |-> i, d |-> 1]

RAdd(a, b) == Rat(a.n * b.d + b.n * a.d, a.d * b.d)

RSub(a, b) == Rat(a.n * b.d - b.n * a.d, a.d * b.d)

RMul(a, b) == Rat(a.n * b.n, a.d * b.d)

\* a / b for b > 0.
RDiv(a, b) == Rat(a.n * b.d, a.d * b.n)

RLess(a, b) == a.n * b.d < b.n * a.d

\* np.arange(n)
Arange(n) == [j \in 1..n |-> RInt(j - 1)]

\* np.zeros(n)
Zeros(n) == [j \in 1..n |-> 0]

\* The if/elif chain of plot_bar: the first test that holds.
BarBranch(data) ==
    IF data.k = "dict" THEN "mapping"
    ELSE IF Len(data.items) = 2 /\ data.items[2].k = "dict" THEN "xmapping"
    ELSE IF Len(data.items) = 2 /\ data.items[2].k # "dict" THEN "xy"
    ELSE IF \A i \in 1..Len(data.items) : data.items[i].k = "list"
         THEN "seqseq"
    ELSE "single"

BarCall(x, height, w, btm, label, kw) ==
    [x |-> x, height |-> height, width |-> w, bottom |-> btm,
     label |-> label, kw |-> kw]

\* ax.bar(x, height, width, bottom=...): numpy broadcasts the positions
\* against the heights, and raises when their lengths differ and neither is 1.
BarRaises(c) ==
    LET n == Len(c.x)
        m == Size(c.height)
    IN  ~(n = m \/ n = 1 \/ m = 1)

\* bottom += np.array(y_values) raises unless y has bottom's length or one
\* element (which numpy adds to every position).
AddRaises(n, y) == ~(Len(y) = n \/ Len(y) = 1)

\* BarRaises over the steps of a loop.
BarBad(steps) == [i \in 1..Len(steps) |-> BarRaises(steps[i])]

\* bottom = np.array(y_values) in place of bottom += ...
BAddOverwrite(b, y) == [j \in 1..Len(b) |-> IF Len(y) = 1 THEN y[1] ELSE y[j]]

BAdd(b, y) == [j \in 1..Len(b) |-> b[j] + IF Len(y) = 1 THEN y[1] ELSE y[j]]

\* bottom after the first k series were added to np.zeros(n).
RECURSIVE StackBottom(_, _, _)
StackBottom(series, n, k) ==
    IF k = 0 THEN Zeros(n)
    ELSE BAdd(StackBottom(series, n, k - 1), series[k].ys)

\* The offset without its + 0.5: (i - S/2) * bar_width.
OffsetNoHalf(i, S, bar_width) ==
    RMul(RSub(RInt(i), RDiv(RInt(S), RInt(2))), bar_width)

\* series i (0-indexed) of S: (i - S/2 + 0.5) * bar_width
Offset(i, S, bar_width) ==
    RMul(RAdd(RSub(RInt(i), RDiv(RInt(S), RInt(2))), Rat(1, 2)), bar_width)

NoTicks == [k |-> "None", pos |-> <<>>, labels |-> Absent]

\* ax.set_xticks(x_pos); ax.set_xticklabels(labels)
Ticks(n, labels) == [k |-> "set", pos |-> Arange(n), labels |-> labels]

\* The stacked loop (lines 229-232, 252-255, 286-289) over n positions:
\* each series is drawn on the bottom accumulated so far, which it then
\* joins.
Stacked(series, n, w, kwargs) ==
    LET N == Len(series)
        call(i) == BarCall(Arange(n), Lst(series[i].ys), w,
                           ListArg(StackBottom(series, n, i - 1)),
                           series[i].name, kwargs)
        drawBad(i) == BarRaises(BarCall(Arange(n), Lst(series[i].ys), w,
                                        NoneArg, series[i].name, kwargs))
        bad(i) == drawBad(i) \/ AddRaises(n, series[i].ys)
        f == IF \E i \in 1..N : bad(i)
             THEN CHOOSE i \in 1..N : bad(i) /\ \A j \in 1..(i - 1) : ~bad(j)
             ELSE N + 1
        made == IF f <= N /\ ~drawBad(f) THEN f ELSE f - 1
    IN  [draws |-> [i \in 1..made |-> call(i)],
         bottom |-> ListArg(StackBottom(series, n, f - 1)),
         err |-> IF f > N THEN "none"
                 ELSE IF drawBad(f) THEN "primitive" ELSE "ValueError"]

\* The grouped loop (lines 235-238, 258-261, 292-295): width / S raises for
\* S = 0.
Grouped(series, n, w, kwargs) ==
    LET S == Len(series)
        bar_width == RDiv(w, RInt(S))
        xs(i) == [j \in 1..n |-> RAdd(Arange(n)[j], Offset(i - 1, S, bar_width))]
        steps == [i \in 1..S |->
                     BarCall(xs(i), Lst(series[i].ys), bar_width, NoneArg,
                             series[i].name, kwargs)]
        r == RunLoop(steps, BarBad(steps))
    IN  IF S = 0
        THEN [draws |-> <<>>, bottom |-> NoneArg, err |-> "ZeroDivisionError"]
        ELSE [draws |-> r.draws, bottom |-> NoneArg, err |-> r.err]

\* if bar_type == 'stacked': ... else: ..., then the tick labels.
BarSeries(series, n, labels, names, bar_type, w, kwargs) ==
    LET r == IF bar_type = "stacked" THEN Stacked(series, n, w, kwargs)
             ELSE Grouped(series, n, w, kwargs)
    IN  [draws |-> r.draws, bottom |-> r.bottom, series_names |-> names,
         ticks |-> IF r.err = "none" THEN Ticks(n, labels) ELSE NoTicks,
         err |-> r.err]

BarFail(names, e) ==
    [draws |-> <<>>, bottom |-> NoneArg, series_names |-> names,
     ticks |-> NoTicks, err |-> e]

\* Lines 217-241: a dict.  series_data[0] of an empty dict raises.
BarMapping(d, x_data, bar_type, w, kwargs) ==
    IF x_data.k = "None" /\ Len(d) = 0
    THEN BarFail(Names(Keys(d)), "IndexError")
    ELSE LET labels == IF x_data.k = "None" THEN Range(Len(d[1].ys))
                       ELSE x_data.s
         IN  BarSeries(d, Len(labels), Lst(labels), Names(Keys(d)),
                       bar_type, w, kwargs)

\* Lines 243-264: (x_vals, y_dict).  len(x_vals) of a number raises.
BarXMapping(items, bar_type, w, kwargs) ==
    IF items[1].k # "list"
    THEN BarFail(Names(Keys(items[2].d)), "TypeError")
    ELSE BarSeries(items[2].d, Len(items[1].s), items[1],
                   Names(Keys(items[2].d)), bar_type, w, kwargs)

\* Lines 266-273: (x_vals, y_vals).
BarXY(items, w, kwargs) ==
    IF items[1].k # "list"
    THEN BarFail(NoNames, "TypeError")
    ELSE LET n == Len(items[1].s)
             steps == <<BarCall(Arange(n), items[2], w, NoneArg, NoLabel,
                                kwargs)>>
             r == RunLoop(steps, BarBad(steps))
         IN  [draws |-> r.draws, bottom |-> NoneArg, series_names |-> NoNames,
              ticks |-> IF r.err = "none" THEN Ticks(n, items[1]) ELSE NoTicks,
              err |-> r.err]

\* Lines 275-298: a list of lists, named 'Series i'.  data[0] of an empty
\* list raises.
BarSeqSeq(items, x_data, bar_type, w, kwargs) ==
    LET names == Names([i \in 1..Len(items) |-> SeriesLabel(i)])
        series == [i \in 1..Len(items) |->
                      [name |-> SeriesLabel(i), ys |-> items[i].s]]
    IN  IF x_data.k = "None" /\ Len(items) = 0
        THEN BarFail(names, "IndexError")
        ELSE LET labels == IF x_data.k = "None" THEN Range(Len(items[1].s))
                           ELSE x_data.s
             IN  BarSeries(series, Len(labels), Lst(labels), names,
                           bar_type, w, kwargs)

\* Lines 300-309: the fallback, data itself as the heights.
BarSingle(data, x_data, w, kwargs) ==
    LET labels == IF x_data.k = "None" THEN Range(Len(data.items))
                  ELSE x_data.s
        n == Len(labels)
        steps == <<BarCall(Arange(n), AsArray(data), w, NoneArg, NoLabel,
                           kwargs)>>
        r == RunLoop(steps, BarBad(steps))
    IN  [draws |-> r.draws, bottom |-> NoneArg, series_names |-> NoNames,
         ticks |-> IF r.err = "none" THEN Ticks(n, Lst(labels)) ELSE NoTicks,
         err |-> r.err]

\* Lines 216-309 of plot_bar.
BarDispatch(data, x_data, bar_type, w, kwargs) ==
    LET b == BarBranch(data)
    IN  CASE b = "mapping"  -> BarMapping(data.d, x_data, bar_type, w, kwargs)
          [] b = "xmapping" -> BarXMapping(data.items, bar_type, w, kwargs)
          [] b = "xy"       -> BarXY(data.items, w, kwargs)
          [] b = "seqseq"   -> BarSeqSeq(data.items, x_data, bar_type, w, kwargs)
          [] OTHER          -> BarSingle(data, x_data, w, kwargs)

\* ------------------------------------------------------ the shared finishing

\* The legend step with the automatic legend kept for more than one name.
HandleLegendManyNames(legend, names) ==
    IF legend.k = "True"
       \/ (legend.k = "None" /\ names.k # "None" /\ Len(names.v) > 1)
    THEN <<[via |-> "ax", labels |-> NoneArg]>>
    ELSE IF legend.k = "list"
         THEN <<[via |-> "ax", labels |-> ListArg(legend.s)]>>
         ELSE <<>>

\* "Handle legend" (lines 117-124 and 316-323): the ax.legend calls made.
HandleLegend(legend, names) ==
    IF legend.k = "True" \/ (legend.k = "None" /\ names.k # "None")
    THEN IF legend.k = "list"
         THEN <<[via |-> "ax", labels |-> ListArg(legend.s)]>>
         ELSE <<[via |-> "ax", labels |-> NoneArg]>>
    ELSE IF legend.k = "list"
         THEN <<[via |-> "ax", labels |-> ListArg(legend.s)]>>
         ELSE <<>>

NoPath == [k |-> "None", dir |-> "", base |-> ""]

\* A save_path string, by os.path.dirname and the rest.
Path(dir, base) == [k |-> "str", dir |-> dir, base |-> base]

\* bool(save_path): None and "" are falsy.
Truthy(p) == p.k = "str" /\ (p.dir # "" \/ p.base # "")

Ev(op, p) == [op |-> op, path |-> p]

\* The save step with the message printed ahead of plt.savefig.
SaveAndShowPrintFirst(p, ds, fs) ==
    LET mk == Truthy(p) /\ p.dir # "" /\ p.dir \notin ds
        pre == IF mk THEN <<Ev("makedirs", p)>> ELSE <<>>
    IN  IF ~Truthy(p)
        THEN [events |-> <<Ev("show", NoPath), Ev("return", NoPath)>>,
              dirs |-> ds, err |-> "none"]
        ELSE IF mk /\ fs = "mkdir_fails"
        THEN [events |-> <<>>, dirs |-> ds, err |-> "OSError"]
        ELSE IF fs = "write_fails"
        THEN [events |-> pre \o <<Ev("print", p), Ev("savefig_failed", p)>>,
              dirs |-> IF mk THEN ds \cup {p.dir} ELSE ds, err |-> "OSError"]
        ELSE [events |-> pre \o <<Ev("print", p), Ev("savefig", p),
                                  Ev("show", NoPath), Ev("return", NoPath)>>,
              dirs |-> IF mk THEN ds \cup {p.dir} ELSE ds, err |-> "none"]

\* "Save image" and what follows it (lines 133-144 and 332-343), with the
\* environment's answer fs: "ok", "mkdir_fails" or "write_fails".
SaveAndShow(p, ds, fs) ==
    LET mk == Truthy(p) /\ p.dir # "" /\ p.dir \notin ds
        pre == IF mk THEN <<Ev("makedirs", p)>> ELSE <<>>
    IN  IF ~Truthy(p)
        THEN [events |-> <<Ev("show", NoPath), Ev("return", NoPath)>>,
              dirs |-> ds, err |-> "none"]
        ELSE IF mk /\ fs = "mkdir_fails"
        THEN [events |-> <<>>, dirs |-> ds, err |-> "OSError"]
        ELSE IF fs = "write_fails"
        THEN [events |-> pre \o <<Ev("savefig_failed", p)>>,
              dirs |-> IF mk THEN ds \cup {p.dir} ELSE ds, err |-> "OSError"]
        ELSE [events |-> pre \o <<Ev("savefig", p), Ev("print", p),
                                  Ev("show", NoPath), Ev("return", NoPath)>>,
              dirs |-> IF mk THEN ds \cup {p.dir} ELSE ds, err |-> "none"]

\* ------------------------------------------------------------- the arguments

NameOf(i) == <<"a", "b", "c", "d", "e", "f">>[i]

\* Series i of a call's data: L consecutive numbers, apart from the other
\* series' numbers.
Ramp(base, i, L) == [j \in 1..L |-> base + 10 * (i - 1) + (j - 1)]

\* x-axis values of length n.
XVals(n) == [j \in 1..n |-> 100 * j]

Bases == {1, 2}

\* S series of length L; when ragged the last one is one element shorter.
SeriesOf(base, S, L, ragged) ==
    [i \in 1..S |->
        [name |-> NameOf(i),
         ys |-> Ramp(base, i, IF ragged /\ i = S /\ L > 0 THEN L - 1 ELSE L)]]

SeriesSets ==
    {SeriesOf(b, S, L, r) : b \in Bases, S \in 0..MaxSeries, L \in 0..MaxLen,
                            r \in BOOLEAN}

\* The x-axis lengths tried beside series of length L.
XLens(L) == {L, MaxLen}

FlatData == {Top([j \in 1..L |-> Num(Ramp(b, 1, L)[j])]) :
                 b \in Bases, L \in 0..MaxLen}

MappingData == {TopDict(d) : d \in SeriesSets}

\* The x-axis of a pair beside series d: as long as the first series, or
\* MaxLen long.
PairXLens(d) == IF Len(d) = 0 THEN {0, MaxLen} ELSE XLens(Len(d[1].ys))

XMappingData ==
    UNION {{Top(<<Lst(XVals(n)), Dct(d)>>) : n \in PairXLens(d)} :
               d \in SeriesSets}

XYData ==
    UNION {{Top(<<Lst(XVals(n)), Lst(Ramp(b, 1, L))>>) : n \in XLens(L)} :
               b \in Bases, L \in 0..MaxLen}

SeqSeqData == {Top([i \in 1..Len(d) |-> Lst(d[i].ys)]) : d \in SeriesSets}

DataArgs == FlatData \cup MappingData \cup XMappingData \cup XYData
            \cup SeqSeqData

XDataArgs == {NoneArg, ListArg(XVals(MaxLen))}

LegendArgs == {[k |-> "None", s |-> <<>>], [k |-> "True", s |-> <<>>],
               [k |-> "False", s |-> <<>>],
               [k |-> "list", s |-> <<"first", "second">>]}

KwArgs == {NoKw, <<[key |-> "color", val |-> "red"]>>}

\* save_path: None, "", "chart.png" and "out/sub/chart.png".
SavePaths == {NoPath, Path("", ""), Path("", "chart.png"),
              Path("out/sub", "chart.png")}

BarTypes == {"grouped", "stacked"}

\* width: the default 0.8, and 0.5.
Widths == {Rat(8, 10), Rat(1, 2)}

\* What the file system may answer to this call's save.
FsAnswers(p, ds) ==
    IF ~Truthy(p) THEN {"ok"}
    ELSE IF p.dir # "" /\ p.dir \notin ds
    THEN {"ok", "mkdir_fails", "write_fails"}
    ELSE {"ok", "write_fails"}

\* ------------------------------------------------------------------ actions

NoArgs == [fn |-> "none", data |-> Top(<<>>), x_data |-> NoneArg,
           legend |-> [k |-> "None", s |-> <<>>], save_path |-> NoPath,
           kwargs |-> NoKw, bar_type |-> "none", width |-> RInt(0)]

Init ==
    /\ pc = "idle"
    /\ args = NoArgs
    /\ draws = <<>>
    /\ legends = <<>>
    /\ ticks = NoTicks
    /\ series_names = NoNames
    /\ bottom = NoneArg
    /\ events = <<>>
    /\ err = "none"
    /\ dirs = {}

\* Everything after the dispatch (lines 112-144 and 311-343), which runs
\* only when the dispatch did not raise.
Finish(r, legend, save_path, fs) ==
    \E s \in {SaveAndShow(save_path, dirs, fs)} :
        IF r.err # "none"
        THEN /\ legends' = r.legends
             /\ events' = <<>>
             /\ err' = r.err
             /\ dirs' = dirs
             /\ pc' = "raised"
        ELSE /\ legends' = r.legends \o HandleLegend(legend, r.series_names)
             /\ events' = s.events
             /\ err' = s.err
             /\ dirs' = s.dirs
             /\ pc' = IF s.err = "none" THEN "returned" ELSE "raised"

\* One call of plot_line.
PlotLine ==
    /\ pc = "idle"
    /\ \E data \in DataArgs, x_data \in XDataArgs, legend \in LegendArgs,
          save_path \in SavePaths, kwargs \in KwArgs :
         \E fs \in FsAnswers(save_path, dirs) :
           \E r \in {LineDispatch(data, x_data, kwargs)} :
               /\ args' = [fn |-> "plot_line", data |-> data,
                           x_data |-> x_data, legend |-> legend,
                           save_path |-> save_path, kwargs |-> kwargs,
                           bar_type |-> "none", width |-> RInt(0)]
               /\ draws' = r.draws
               /\ series_names' = r.series_names
               /\ ticks' = NoTicks
               /\ bottom' = NoneArg
               /\ Finish([err |-> r.err, legends |-> r.legends,
                          series_names |-> r.series_names],
                         legend, save_path, fs)

\* One call of plot_bar.
PlotBar ==
    /\ pc = "idle"
    /\ \E data \in DataArgs, x_data \in XDataArgs, legend \in LegendArgs,
          save_path \in SavePaths, kwargs \in KwArgs,
          bar_type \in BarTypes, w \in Widths :
         \E fs \in FsAnswers(save_path, dirs) :
           \E r \in {BarDispatch(data, x_data, bar_type, w, kwargs)} :
               /\ args' = [fn |-> "plot_bar", data |-> data,
                           x_data |-> x_data, legend |-> legend,
                           save_path |-> save_path, kwargs |-> kwargs,
                           bar_type |-> bar_type, width |-> w]
               /\ draws' = r.draws
               /\ series_names' = r.series_names
               /\ ticks' = r.ticks
               /\ bottom' = r.bottom
               /\ Finish([err |-> r.err, legends |-> <<>>,
                          series_names |-> r.series_names],
                         legend, save_path, fs)

\* The caller has the handles or the exception; the next call starts on a
\* canvas of its own.  The directories stay.
NextCall ==
    /\ pc \in {"returned", "raised"}
    /\ pc' = "idle"
    /\ args' = NoArgs
    /\ draws' = <<>>
    /\ legends' = <<>>
    /\ ticks' = NoTicks
    /\ series_names' = NoNames
    /\ bottom' = NoneArg
    /\ events' = <<>>
    /\ err' = "none"
    /\ UNCHANGED dirs

Next == PlotLine \/ PlotBar \/ NextCall

Spec == Init /\ [][Next]_vars

\* ------------------------------------------------------------ the properties

\* The dispatch of the current call ran to its end: every draw call was
\* accepted, and any failure came later, from the save.
Drew == pc # "idle" /\ err \in {"none", "OSError"}

\* The five shapes of the data argument, first match wins.
Shape(data) ==
    IF data.k = "dict" THEN "mapping"
    ELSE IF Len(data.items) = 2 /\ data.items[2].k = "dict" THEN "xmapping"
    ELSE IF Len(data.items) = 2 THEN "xy"
    ELSE IF \A i \in 1..Len(data.items) : data.items[i].k = "list"
         THEN "seqseq"
    ELSE "single"

MultiShapes == {"mapping", "xmapping", "seqseq"}

\* A flat list of numbers.
IsFlat(data) ==
    data.k = "seq" /\ \A i \in 1..Len(data.items) : data.items[i].k = "num"

\* A pair of two flat sequences.
IsXYPair(data) ==
    /\ data.k = "seq"
    /\ Len(data.items) = 2
    /\ data.items[1].k = "list"
    /\ data.items[2].k = "list"

\* The y-values of the series of a multi-series data argument, in order.
YSeries(data) ==
    IF data.k = "dict" THEN [i \in 1..Len(data.d) |-> data.d[i].ys]
    ELSE IF Shape(data) = "xmapping"
    THEN [i \in 1..Len(data.items[2].d) |-> data.items[2].d[i].ys]
    ELSE [i \in 1..Len(data.items) |-> data.items[i].s]

\* The y-values a draw call carries.
YOf(c) == IF args.fn = "plot_line" THEN c.y ELSE c.height

\* C1: plot_line on a flat list ys with x_data unset makes exactly one draw
\* call, with y-values ys and x-values 0..len(ys)-1.  Stated for the
\* non-empty lists, length 2 among them; the empty list is C7's.
C1_FlatListOneSeries ==
    (pc # "idle" /\ args.fn = "plot_line" /\ IsFlat(args.data)
     /\ Len(args.data.items) >= 1 /\ args.x_data.k = "None")
    => /\ Len(draws) = 1
       /\ draws[1].y = AsArray(args.data)
       /\ DrawnX(draws[1]) = Range(Len(args.data.items))

\* C2: a pair (xs, ys) of two sequences is drawn by both renderers as one
\* unlabelled series with y-values ys on the x-axis xs (plot_bar: at the
\* positions 0..len(xs)-1, with xs as the tick labels), whenever the draw
\* primitive accepts the call.
C2_PairIsOneSeries ==
    (pc # "idle" /\ IsXYPair(args.data) /\ err # "primitive")
    => /\ Len(draws) = 1
       /\ draws[1].label = NoLabel
       /\ YOf(draws[1]) = args.data.items[2]
       /\ args.fn = "plot_line" => draws[1].x = args.data.items[1]
       /\ args.fn = "plot_bar" =>
              /\ draws[1].x = [j \in 1..Len(args.data.items[1].s) |-> RInt(j - 1)]
              /\ ticks.k = "set"
              /\ ticks.pos = draws[1].x
              /\ ticks.labels = args.data.items[1]

C2_Witness ==
    /\ pc = "returned"
    /\ args.fn = "plot_bar"
    /\ IsXYPair(args.data)
    /\ Len(args.data.items[1].s) = 3
    /\ Len(args.data.items[2].s) = 3
    /\ Len(draws) = 1

\* C3: a mapping of N >= 1 series gets, in both renderers and both bar
\* layouts, exactly N draw calls in insertion order, each labelled with its
\* key and carrying its y-values, whenever the dispatch runs to its end; and
\* with legend unset and N = 2 the legend is drawn.
C3_MappingDrawsEachKey ==
    (Drew /\ args.data.k = "dict" /\ Len(args.data.d) >= 1)
    => /\ Len(draws) = Len(args.data.d)
       /\ \A i \in 1..Len(draws) :
              /\ draws[i].label = args.data.d[i].name
              /\ YOf(draws[i]) = Lst(args.data.d[i].ys)
       /\ (args.legend.k = "None" /\ Len(args.data.d) = 2)
              => /\ Len(legends) = 1
                 /\ legends[1].labels.k = "None"

C3_Witness ==
    /\ pc = "returned"
    /\ args.fn = "plot_bar"
    /\ args.bar_type = "stacked"
    /\ args.data.k = "dict"
    /\ Len(args.data.d) = 2
    /\ Len(args.data.d[1].ys) = 3
    /\ args.legend.k = "None"
    /\ Len(draws) = 2
    /\ Len(legends) = 1

\* The series the data argument names: the keys of a mapping.
NamedCount(data) ==
    IF data.k = "dict" THEN Len(data.d)
    ELSE IF Shape(data) = "xmapping" THEN Len(data.items[2].d)
    ELSE 0

\* A legend was drawn, and the last legend call carries these labels.
LegendShown == Len(legends) > 0

LastLegend == legends[Len(legends)]

\* C4 as stated, on data that names at least one series: legend=True shows
\* the legend; with legend unset it is shown exactly when more than one
\* named series exists; a list of strings is drawn as the legend's labels.
C4_LegendPolicyAsStated ==
    (Drew /\ NamedCount(args.data) >= 1)
    => /\ args.legend.k = "True" => LegendShown
       /\ args.legend.k = "None" =>
              (LegendShown <=> NamedCount(args.data) > 1)
       /\ args.legend.k = "list" =>
              /\ LegendShown
              /\ LastLegend.labels = ListArg(args.legend.s)

\* C4 amended: in every call whose dispatch runs to its end, legend=True
\* shows the legend; with legend unset it is shown exactly when the data is
\* of a multi-series shape (mapping, (x, mapping) pair, sequence of
\* sequences), whatever the number of series; a list of strings is drawn as
\* the legend's labels.
C4_LegendPolicy ==
    Drew
    => /\ args.legend.k = "True" =>
              /\ LegendShown
              /\ LastLegend.labels.k = "None"
       /\ args.legend.k = "None" =>
              (LegendShown <=> Shape(args.data) \in MultiShapes)
       /\ args.legend.k = "list" =>
              /\ LegendShown
              /\ LastLegend.labels = ListArg(args.legend.s)

\* A single named series, legend unset: the legend is drawn all the same.
C4_Witness ==
    /\ pc = "returned"
    /\ args.fn = "plot_bar"
    /\ args.legend.k = "None"
    /\ args.data.k = "dict"
    /\ Len(args.data.d) = 1
    /\ Len(draws) = 1
    /\ LegendShown

\* The data argument is {} or [].
IsEmptyData(data) ==
    IF data.k = "dict" THEN Len(data.d) = 0 ELSE Len(data.items) = 0

\* C5: with legend=False no legend call is made on the canvas, whatever the
\* data shape and the renderer.  Stated for non-empty data.
C5_LegendFalseNoLegend ==
    (pc # "idle" /\ args.legend.k = "False" /\ ~IsEmptyData(args.data))
    => legends = <<>>

\* C6: every draw call of a call carries exactly the caller's extra keyword
\* options.
C6_KwargsForwarded ==
    pc # "idle" => \A i \in 1..Len(draws) : draws[i].kw = args.kwargs

\* C7: on an empty mapping or an empty sequence with x_data unset, both
\* renderers produce zero series and raise nothing of their own: the call
\* ends without error, or with one the draw primitive or the save raised.
C7_EmptyDataNoOwnError ==
    (pc # "idle" /\ IsEmptyData(args.data) /\ args.x_data.k = "None")
    => /\ Len(draws) = 0
       /\ err \in {"none", "primitive", "OSError"}

RECURSIVE RSum(_)
RSum(q) == IF q = <<>> THEN RInt(0) ELSE RAdd(Head(q), RSum(Tail(q)))

\* C8: grouped bars of S >= 1 series of a multi-series shape, width W, once
\* the dispatch ran to its end: series i (0-indexed) is drawn with width W/S
\* at tick + (i - S/2 + 0.5) * (W/S); the widths sum to W, the offsets sum
\* to zero at every tick, and the bar of series i ends where that of series
\* i+1 begins.
C8_GroupedLayout ==
    (Drew /\ args.fn = "plot_bar" /\ args.bar_type = "grouped"
     /\ Shape(args.data) \in MultiShapes /\ Len(YSeries(args.data)) >= 1)
    => LET S == Len(YSeries(args.data))
           W == args.width
           bw == Rat(W.n, W.d * S)
           off(i) == Rat((2 * i - S + 1) * W.n, 2 * S * W.d)
           n == Len(ticks.pos)
       IN  /\ Len(draws) = S
           /\ \A i \in 1..S :
                  /\ draws[i].width = bw
                  /\ Len(draws[i].x) = n
                  /\ \A j \in 1..n :
                         draws[i].x[j] = RAdd(RInt(j - 1), off(i - 1))
           /\ RSum([i \in 1..S |-> draws[i].width]) = W
           /\ \A j \in 1..n :
                  RSum([i \in 1..S |-> RSub(draws[i].x[j], RInt(j - 1))])
                      = RInt(0)
           /\ \A i \in 1..(S - 1) : \A j \in 1..n :
                  ~RLess(RSub(draws[i + 1].x[j], RDiv(bw, RInt(2))),
                         RAdd(draws[i].x[j], RDiv(bw, RInt(2))))

C8_Witness ==
    /\ pc = "returned"
    /\ args.fn = "plot_bar"
    /\ args.bar_type = "grouped"
    /\ Shape(args.data) = "seqseq"
    /\ Len(draws) = 3
    /\ Len(draws[1].x) = 3
    /\ draws[1].width = Rat(8, 30)
    /\ draws[3].x[1] = Rat(8, 30)

\* The height numpy draws at position j for the y-values y.
HeightAt(y, j) == IF Len(y) = 1 THEN y[1] ELSE y[j]

RECURSIVE SumAt(_, _, _)
SumAt(ys, k, j) ==
    IF k = 0 THEN 0 ELSE SumAt(ys, k - 1, j) + HeightAt(ys[k], j)

\* C9: stacked bars of equal-length series of a multi-series shape, once the
\* dispatch ran to its end: every series is drawn at the positions 0..N-1,
\* on a bottom that is, position by position, the sum of the series drawn
\* before it (zeros for the first), and the bottom left after the last
\* series is the sum of all of them.
C9_StackedBottom ==
    (Drew /\ args.fn = "plot_bar" /\ args.bar_type = "stacked"
     /\ Shape(args.data) \in MultiShapes
     /\ \A i \in 1..Len(YSeries(args.data)) :
            Len(YSeries(args.data)[i]) = Len(YSeries(args.data)[1]))
    => LET ys == YSeries(args.data)
           n == Len(ticks.pos)
       IN  /\ Len(draws) = Len(ys)
           /\ \A k \in 1..Len(ys) :
                  /\ draws[k].x = [j \in 1..n |-> RInt(j - 1)]
                  /\ draws[k].bottom.k = "list"
                  /\ draws[k].bottom.s = [j \in 1..n |-> SumAt(ys, k - 1, j)]
           /\ bottom.k = "list"
           /\ bottom.s = [j \in 1..n |-> SumAt(ys, Len(ys), j)]

C9_Witness ==
    /\ pc = "returned"
    /\ args.fn = "plot_bar"
    /\ args.bar_type = "stacked"
    /\ Shape(args.data) = "xmapping"
    /\ Len(draws) = 3
    /\ draws[3].bottom.s = <<12, 14, 16>>
    /\ bottom.s = <<33, 36, 39>>

\* The events of the call just made, as seen from the state before it.
Count(op) == Cardinality({i \in 1..Len(events') : events'[i].op = op})

Before(a, b) ==
    \A i, j \in 1..Len(events') :
        (events'[i].op = a /\ events'[j].op = b) => i < j

\* C10: the order of the side effects of one call.  With save_path given: a
\* missing parent directory is created before the file is written, and the
\* message naming the path follows the write.  A call that does not fail
\* shows the figure once, after any save and before it returns.  With no
\* save_path: no directory, no file, no message.  A failed write: the call
\* raises, with neither message nor display.
C10_SideEffectOrder ==
    [][(pc = "idle" /\ pc' # "idle")
       => LET p == args'.save_path
              given == p.k = "str" /\ (p.dir # "" \/ p.base # "")
              missing == given /\ p.dir # "" /\ p.dir \notin dirs
          IN  /\ (given /\ Count("savefig") + Count("savefig_failed") > 0)
                     => /\ missing => Count("makedirs") = 1
                        /\ ~missing => Count("makedirs") = 0
                        /\ Before("makedirs", "savefig")
                        /\ Before("makedirs", "savefig_failed")
                        /\ p.dir # "" => p.dir \in dirs'
              /\ Count("print") = Count("savefig")
              /\ Before("savefig", "print")
              /\ \A i \in 1..Len(events') :
                     events'[i].op \in {"makedirs", "savefig", "print",
                                        "savefig_failed"}
                         => events'[i].path = p
              /\ pc' = "returned"
                     => /\ Count("show") = 1
                        /\ Count("return") = 1
                        /\ Before("savefig", "show")
                        /\ Before("print", "show")
                        /\ Before("show", "return")
                        /\ events'[Len(events')].op = "return"
                        /\ given => Count("savefig") = 1
              /\ pc' = "raised" => Count("show") = 0 /\ Count("return") = 0
              /\ ~given
                     => /\ Count("makedirs") + Count("savefig")
                            + Count("savefig_failed") + Count("print") = 0
                        /\ dirs' = dirs
              /\ Count("savefig_failed") > 0
                     => /\ pc' = "raised"
                        /\ Count("savefig") + Count("print")
                            + Count("show") = 0
      ]_vars

C10_Witness ==
    /\ pc = "returned"
    /\ args.save_path = Path("out/sub", "chart.png")
    /\ Len(events) = 5
    /\ events[1].op = "makedirs"
    /\ events[2].op = "savefig"
    /\ events[3].op = "print"
    /\ events[4].op = "show"
    /\ events[5].op = "return"
    /\ "out/sub" \in dirs

====
